---- MODULE Spec2Model ----
(***************************************************************************)
(* Model of scripts/extract_all_datasets.py and                            *)
(* scripts/extract_interactive_data.py: loading the scored insight records *)
(* of a runs directory, sorting them by score, sampling them at a fixed    *)
(* interval, and emitting the JSON document and the sample images.         *)
(*                                                                         *)
(* Scores are floats in the code.  The model counts them in eighths, so    *)
(* that every score is an exactly representable binary fraction and        *)
(* round(score, 2) is computed exactly (in hundredths).                    *)
(***************************************************************************)
EXTENDS Integers, Sequences, FiniteSets, TLC

\* Bounds of the model.
MaxLen == 4
MaxScore == 2
MaxStride == 4
MaxRuns == 2
MaxEntries == 2

\* Program constants.
DatasetInterval == 10
InteractiveInterval == 20
DATASETS == <<"diabetes", "education", "happiness", "insurance", "shopping">>
DisplayName(dataset_key) ==
    CASE dataset_key = "diabetes" -> "Diabetes"
      [] dataset_key = "education" -> "Education"
      [] dataset_key = "happiness" -> "World Happiness"
      [] dataset_key = "insurance" -> "Medical Insurance"
      [] dataset_key = "shopping" -> "Shopping Behavior"

VARIABLES
    prog,          \* the entry point that is running
    pc,            \* its position
    insights,      \* argument of the most recent sample_insights call
    interval,      \* argument of the most recent sample_insights call
    ret,           \* what that call returned or raised
    ret2,          \* what sample_insights returned for sorted(insights)
    next,          \* index in DATASETS of the next dataset of the batch
    runs_root,     \* the runs directory read by the most recent load
    all_insights,  \* what load_all_insights returned or raised
    document,      \* the JSON document written by the pipeline run
    copied         \* the images copied by the pipeline run

vars == <<prog, pc, insights, interval, ret, ret2, next, runs_root,
          all_insights, document, copied>>

----------------------------------------------------------------------------
\* Python values

None == [t |-> "None", v |-> 0]
Return(v) == [tag |-> "return", value |-> v]
Raise(e) == [tag |-> "raise", exc |-> e]
NotCalled == [tag |-> "not called"]

\* The record load_all_insights builds for one entry.
Record(score, text, img, run, orig) ==
    [score |-> score, insight |-> text, img_path |-> img,
     run_name |-> run, original_path |-> orig]

----------------------------------------------------------------------------
\* sorted(insights, key=lambda x: x["score"]): a stable ascending sort.

\* x goes before the elements of equal key: ties end in reverse order
InsertUnstable(x, s) ==
    LET before == {i \in 1..Len(s) : s[i].score < x.score}
        k == Cardinality(before)
    IN SubSeq(s, 1, k) \o <<x>> \o SubSeq(s, k + 1, Len(s))

\* x goes after every element of the sorted sequence s whose key is <= its own
Insert(x, s) ==
    LET before == {i \in 1..Len(s) : s[i].score <= x.score}
        k == Cardinality(before)
    IN SubSeq(s, 1, k) \o <<x>> \o SubSeq(s, k + 1, Len(s))

RECURSIVE SortedFrom(_, _, _)
SortedFrom(s, i, acc) ==
    IF i > Len(s) THEN acc ELSE SortedFrom(s, i + 1, Insert(s[i], acc))

Sorted(s) == SortedFrom(s, 1, <<>>)

\* range(start, stop + 1, step): the bound taken inclusive
RangeInclusive(start, stop, step) ==
    IF step > 0
    THEN LET cnt == IF stop >= start THEN ((stop - start) \div step) + 1 ELSE 0
         IN [k \in 1..cnt |-> start + (k - 1) * step]
    ELSE LET cnt == IF start >= stop THEN ((start - stop) \div (0 - step)) + 1 ELSE 0
         IN [k \in 1..cnt |-> start + (k - 1) * step]

\* range(0, stop, step): the loop starting at 0 instead of one step in
RangeFromZero(start, stop, step) ==
    IF step > 0
    THEN LET cnt == IF stop > 0 THEN (stop + step - 1) \div step ELSE 0
         IN [k \in 1..cnt |-> (k - 1) * step]
    ELSE <<>>

\* range(start, stop, step) for step # 0
Range(start, stop, step) ==
    IF step > 0
    THEN LET cnt == IF stop > start THEN (stop - start + step - 1) \div step ELSE 0
         IN [k \in 1..cnt |-> start + (k - 1) * step]
    ELSE LET cnt == IF start > stop THEN (start - stop - step - 1) \div (0 - step) ELSE 0
         IN [k \in 1..cnt |-> start + (k - 1) * step]

\* sample_insights without the trailing append of the last record
sample_insights_nolast(ins, step) ==
    LET sorted_insights == Sorted(ins)
        n == Len(sorted_insights)
    IN IF n = 0 THEN Return([sampled |-> <<>>, indices |-> <<>>])
       ELSE IF n = 1
       THEN Return([sampled |-> <<sorted_insights[1]>>, indices |-> <<0>>])
       ELSE IF step = 0 THEN Raise("ValueError")
       ELSE LET mid == Range(step, n - 1, step)
            IN Return([sampled |-> <<sorted_insights[1]>>
                            \o [k \in 1..Len(mid) |-> sorted_insights[mid[k] + 1]],
                       indices |-> <<0>> \o mid])

\* sample_insights testing the interval before the early returns
sample_insights_eager(ins, step) ==
    LET sorted_insights == Sorted(ins)
        n == Len(sorted_insights)
    IN IF step = 0 THEN Raise("ValueError")
       ELSE IF n = 0 THEN Return([sampled |-> <<>>, indices |-> <<>>])
       ELSE IF n = 1
       THEN Return([sampled |-> <<sorted_insights[1]>>, indices |-> <<0>>])
       ELSE LET mid == Range(step, n - 1, step)
            IN Return([sampled |-> <<sorted_insights[1]>>
                            \o [k \in 1..Len(mid) |-> sorted_insights[mid[k] + 1]]
                            \o <<sorted_insights[n]>>,
                       indices |-> <<0>> \o mid \o <<n - 1>>])

\* sample_insights(insights, interval); range() raises ValueError for a zero
\* step, which is reached only when there are two records or more.
sample_insights(ins, step) ==
    LET sorted_insights == Sorted(ins)
        n == Len(sorted_insights)
    IN IF n = 0 THEN Return([sampled |-> <<>>, indices |-> <<>>])
       ELSE IF n = 1
       THEN Return([sampled |-> <<sorted_insights[1]>>, indices |-> <<0>>])
       ELSE IF step = 0 THEN Raise("ValueError")
       ELSE LET last_idx == n - 1
                mid == Range(step, last_idx, step)
            IN Return([sampled |-> <<sorted_insights[1]>>
                            \o [k \in 1..Len(mid) |-> sorted_insights[mid[k] + 1]]
                            \o <<sorted_insights[n]>>,
                       indices |-> <<0>> \o mid \o <<last_idx>>])

----------------------------------------------------------------------------
\* JSON values of the avg_scores field, and the objects of an insights file

JNull == [t |-> "null", v |-> 0]
JInt(n) == [t |-> "int", v |-> n]          \* the integer n
JFloat(k) == [t |-> "float", v |-> k]      \* the float k/8
JStr == [t |-> "str", v |-> 0]             \* a string that is not a number

\* ins.get("avg_scores"): None when the key is absent or its value is null
GetAvgScoresKeepNull(ins) ==
    IF ins.has_avg_scores THEN ins.avg_scores ELSE None

GetAvgScores(ins) ==
    IF ins.has_avg_scores /\ ins.avg_scores.t # "null"
    THEN ins.avg_scores
    ELSE None

\* float(score), in eighths
ToFloat(x) ==
    CASE x.t = "int" -> Return(8 * x.v)
      [] x.t = "float" -> Return(x.v)
      [] x.t = "str" -> Raise("ValueError")
      [] OTHER -> Raise("TypeError")

\* os.path.basename(img_path); a path is the sequence of its components
Basename(path) == path[Len(path)]

\* A file name is the sequence of the code points of its characters.
RunPrefix == <<114, 117, 110, 95>>         \* "run_"

\* run_name.startswith("run_")
StartsWithRun(name) ==
    Len(name) >= Len(RunPrefix) /\ SubSeq(name, 1, Len(RunPrefix)) = RunPrefix

\* a < b on Python strings: the first differing character decides, and a
\* proper prefix comes first
RECURSIVE NameLess(_, _)
NameLess(a, b) ==
    IF Len(b) = 0 THEN FALSE
    ELSE IF Len(a) = 0 THEN TRUE
    ELSE IF a[1] # b[1] THEN a[1] < b[1]
    ELSE NameLess(Tail(a), Tail(b))

RECURSIVE SortNames(_)
SortNames(S) ==
    IF S = {} THEN <<>>
    ELSE LET m == CHOOSE x \in S : \A y \in S \ {x} : NameLess(x, y)
         IN <<m>> \o SortNames(S \ {m})

\* sorted(os.listdir(runs_root))
SortedListing(root) == SortNames(DOMAIN root.entries)

\* data.items() and the inner loop, flattened: the <<img_path, ins>> pairs in
\* iteration order
RECURSIVE Flatten(_, _)
Flatten(data, i) ==
    IF i > Len(data) THEN <<>>
    ELSE [k \in 1..Len(data[i].ins_list) |->
             [img_path |-> data[i].img_path, ins |-> data[i].ins_list[k]]]
         \o Flatten(data, i + 1)

\* The body of the two loops over one insights file, from pair i on.  An
\* exception leaves the loops; what was appended before it stays appended.
\* the loops without the test "score is not None": a null counts as 0
RECURSIVE AppendEntriesKeepNull(_, _, _, _)
AppendEntriesKeepNull(pairs, i, run_name, acc) ==
    IF i > Len(pairs) THEN acc
    ELSE LET ins == pairs[i].ins
             score == GetAvgScoresKeepNull(ins)
             f == IF score.t = "null" THEN Return(0) ELSE ToFloat(score)
         IN IF score.t = "None"
            THEN AppendEntriesKeepNull(pairs, i + 1, run_name, acc)
            ELSE IF f.tag = "raise" THEN acc
            ELSE AppendEntriesKeepNull(pairs, i + 1, run_name,
                    Append(acc, Record(f.value, ins.insight,
                        <<run_name, "viz", "verified", Basename(pairs[i].img_path)>>,
                        run_name, pairs[i].img_path)))

RECURSIVE AppendEntries(_, _, _, _)
AppendEntries(pairs, i, run_name, acc) ==
    IF i > Len(pairs) THEN acc
    ELSE LET ins == pairs[i].ins
             score == GetAvgScores(ins)
             f == ToFloat(score)
         IN IF score.t = "None"
            THEN AppendEntries(pairs, i + 1, run_name, acc)
            ELSE IF f.tag = "raise" THEN acc
            ELSE AppendEntries(pairs, i + 1, run_name,
                    Append(acc, Record(f.value, ins.insight,
                        <<run_name, "viz", "verified", Basename(pairs[i].img_path)>>,
                        run_name, pairs[i].img_path)))

\* One iteration of the loop over the run names: the three skips, then the
\* try block.  json.load raising leaves all_insights as it was.
LoadRun(root, run_name, acc) ==
    LET d == root.entries[run_name]
    IN IF ~d.isdir \/ ~StartsWithRun(run_name) THEN acc
       ELSE IF d.error THEN acc
       ELSE IF ~d.has_insights THEN acc
       ELSE IF ~d.parses THEN acc
       ELSE AppendEntries(Flatten(d.data, 1), 1, run_name, acc)

RECURSIVE LoadRuns(_, _, _, _)
LoadRuns(root, names, i, acc) ==
    IF i > Len(names) THEN acc
    ELSE LoadRuns(root, names, i + 1, LoadRun(root, names[i], acc))

\* load_all_insights(runs_root); os.listdir raises when the directory is
\* missing, outside any try block
load_all_insights(root) ==
    IF ~root.exists THEN Raise("FileNotFoundError")
    ELSE Return(LoadRuns(root, SortedListing(root), 1, <<>>))

\* os.path.exists(ins["img_path"]) for a record loaded from root
ImageExists(root, rec) ==
    /\ root.exists
    /\ rec.run_name \in DOMAIN root.entries
    /\ rec.img_path[4] \in root.entries[rec.run_name].verified

----------------------------------------------------------------------------
\* The pipeline after loading: curve, samples, image copies, document

RECURSIVE SumScores(_, _)
SumScores(scores, i) ==
    IF i > Len(scores) THEN 0 ELSE scores[i] + SumScores(scores, i + 1)

MinScore(scores) == CHOOSE m \in {scores[i] : i \in 1..Len(scores)} :
                        \A i \in 1..Len(scores) : m <= scores[i]
MaxScoreOf(scores) == CHOOSE m \in {scores[i] : i \in 1..Len(scores)} :
                        \A i \in 1..Len(scores) : m >= scores[i]

\* round(x, 2) of the float k/8, in hundredths: k/8 = 12.5k hundredths, and
\* an exact tie goes to the even neighbour
Round2(k) ==
    LET twice == 25 * k
        q == twice \div 2
    IN IF twice % 2 = 0 THEN q
       ELSE IF q % 2 = 0 THEN q ELSE q + 1

\* the scores taken from all_insights, in load order
AllScoresUnsorted(all) == [i \in 1..Len(all) |-> all[i].score]

\* all_scores = [ins["score"] for ins in sorted_insights]
AllScores(all) == LET s == Sorted(all) IN [i \in 1..Len(s) |-> s[i].score]

\* curve_data; the average is kept as the fraction sum / count
CurveData(all_scores) ==
    [scores |-> all_scores,
     total_count |-> Len(all_scores),
     avg_score |-> IF Len(all_scores) > 0
                   THEN [num |-> SumScores(all_scores, 1), den |-> Len(all_scores)]
                   ELSE [num |-> 0, den |-> 1],
     min_score |-> IF Len(all_scores) > 0 THEN MinScore(all_scores) ELSE 0,
     max_score |-> IF Len(all_scores) > 0 THEN MaxScoreOf(all_scores) ELSE 0]

\* sampled_data: one entry per (ins, idx) of zip(sampled, sampled_indices),
\* numbered from 0
SampledData(sampled, sampled_indices, img_dir) ==
    LET m == IF Len(sampled) < Len(sampled_indices)
             THEN Len(sampled) ELSE Len(sampled_indices)
    IN [k \in 1..m |->
          [index |-> sampled_indices[k],
           score |-> Round2(sampled[k].score),
           insight |-> sampled[k].insight,
           img_url |-> <<"img", img_dir, k - 1>>,
           run_name |-> sampled[k].run_name]]

\* the shutil.copy2 calls of the loop: sample i is copied to sample_{i}.png
\* when its image exists
RECURSIVE CopiedImages(_, _, _, _)
CopiedImages(root, sampled, img_dir, k) ==
    IF k > Len(sampled) THEN <<>>
    ELSE (IF ImageExists(root, sampled[k])
          THEN <<[src |-> sampled[k].img_path, dest |-> <<"img", img_dir, k - 1>>]>>
          ELSE <<>>)
         \o CopiedImages(root, sampled, img_dir, k + 1)

NoDocument == [written |-> FALSE]

\* What one run of the pipeline did.
Outcome(status, loaded, arg, step, r, doc, cp) ==
    [status |-> status, all_insights |-> loaded, insights |-> arg,
     interval |-> step, ret |-> r, document |-> doc, copied |-> cp]

\* process_dataset without the return on zero records
process_dataset_noabort(dataset_key, root) ==
    LET loaded == load_all_insights(root)
        img_dir == <<"interactive", dataset_key>>
    IN IF loaded.tag = "raise"
       THEN Outcome("raise", loaded, <<>>, DatasetInterval, NotCalled, NoDocument, <<>>)
       ELSE LET all_scores == AllScores(loaded.value)
                r == sample_insights(loaded.value, DatasetInterval)
                sampled == r.value.sampled
                sampled_indices == r.value.indices
            IN Outcome("return", loaded, loaded.value, DatasetInterval, r,
                  [written |-> TRUE,
                   path |-> <<"data", "interactive", dataset_key>>,
                   data |-> [dataset |-> dataset_key,
                             display_name |-> DisplayName(dataset_key),
                             curve |-> CurveData(all_scores),
                             samples |-> SampledData(sampled, sampled_indices, img_dir),
                             interval |-> DatasetInterval]],
                  CopiedImages(root, sampled, img_dir, 1))

\* process_dataset(dataset_key, config) on a runs directory
process_dataset(dataset_key, root) ==
    LET loaded == load_all_insights(root)
        img_dir == <<"interactive", dataset_key>>
    IN IF loaded.tag = "raise"
       THEN Outcome("raise", loaded, <<>>, DatasetInterval, NotCalled, NoDocument, <<>>)
       ELSE IF Len(loaded.value) = 0
       THEN Outcome("return", loaded, <<>>, DatasetInterval, NotCalled, NoDocument, <<>>)
       ELSE LET all_scores == AllScores(loaded.value)
                r == sample_insights(loaded.value, DatasetInterval)
                sampled == r.value.sampled
                sampled_indices == r.value.indices
            IN Outcome("return", loaded, loaded.value, DatasetInterval, r,
                  [written |-> TRUE,
                   path |-> <<"data", "interactive", dataset_key>>,
                   data |-> [dataset |-> dataset_key,
                             display_name |-> DisplayName(dataset_key),
                             curve |-> CurveData(all_scores),
                             samples |-> SampledData(sampled, sampled_indices, img_dir),
                             interval |-> DatasetInterval]],
                  CopiedImages(root, sampled, img_dir, 1))

\* main() of extract_interactive_data.py on a runs directory
interactive_main(root) ==
    LET loaded == load_all_insights(root)
        img_dir == <<"interactive", "pruning_0.6">>
    IN IF loaded.tag = "raise"
       THEN Outcome("raise", loaded, <<>>, InteractiveInterval, NotCalled, NoDocument, <<>>)
       ELSE LET all_scores == AllScores(loaded.value)
                r == sample_insights(loaded.value, InteractiveInterval)
                sampled == r.value.sampled
                sampled_indices == r.value.indices
            IN Outcome("return", loaded, loaded.value, InteractiveInterval, r,
                  [written |-> TRUE,
                   path |-> <<"data", "interactive_scores", "pruning_0.6">>,
                   data |-> [curve |-> CurveData(all_scores),
                             samples |-> SampledData(sampled, sampled_indices, img_dir),
                             interval |-> InteractiveInterval]],
                  CopiedImages(root, sampled, img_dir, 1))

----------------------------------------------------------------------------
\* Inputs

\* A record as a caller of sample_insights passes it: the i-th of its list
InputRecord(score, i) ==
    Record(score, i, <<<<>>, "viz", "verified", "chart.png">>, <<>>, <<"plots", "chart.png">>)

\* every list of at most MaxLen records with scores in 0..MaxScore
SmallInputs ==
    UNION {{[i \in 1..n |-> InputRecord(f[i], i)] : f \in [1..n -> 0..MaxScore]} :
           n \in 0..MaxLen}

\* 25 records with the scores 0..24, in order and rotated; the 21 records
\* 0..20; and the scores 5, 3, 1, 4, 2
LongInputs ==
    {[i \in 1..25 |-> InputRecord((i - 1 + r) % 25, i)] : r \in {0, 7}}
    \cup {[i \in 1..21 |-> InputRecord(21 - i, i)]}
    \cup {[i \in 1..5 |-> InputRecord(<<5, 3, 1, 4, 2>>[i], i)]}

Inputs == SmallInputs \cup LongInputs

Strides == (-1..MaxStride) \cup {DatasetInterval, InteractiveInterval}

\* the objects of an insights file: avg_scores absent, null, the integer 1,
\* the float 9/8, or a string that is not a number
AvgChoices == {"absent", "null", "int", "float", "str"}
Ins(c, i) ==
    [has_avg_scores |-> c # "absent",
     avg_scores |-> CASE c = "int" -> JInt(1)
                      [] c = "float" -> JFloat(9)
                      [] c = "str" -> JStr
                      [] OTHER -> JNull,
     insight |-> i]

InsLists ==
    UNION {{[i \in 1..n |-> Ins(f[i], i)] : f \in [1..n -> AvgChoices]} :
           n \in 0..MaxEntries}

\* an entry of the runs directory; verified is the set of the image files
\* in its viz/verified
Dirent(isdir, error, has_insights, parses, data, verified) ==
    [isdir |-> isdir, error |-> error, has_insights |-> has_insights,
     parses |-> parses, data |-> data, verified |-> verified]

ChartData(l) == <<[img_path |-> <<"plots", "chart.png">>, ins_list |-> l]>>

\* a plain file, a run with error.json, a run without insights_validated.json,
\* a run whose insights file is not JSON, and the runs with an insights file,
\* with and without their image
DirentChoices ==
    {Dirent(FALSE, FALSE, FALSE, FALSE, <<>>, {}),
     Dirent(TRUE, TRUE, TRUE, TRUE, ChartData(<<Ins("int", 1)>>), {"chart.png"}),
     Dirent(TRUE, FALSE, FALSE, FALSE, <<>>, {}),
     Dirent(TRUE, FALSE, TRUE, FALSE, <<>>, {"chart.png"})}
    \cup {Dirent(TRUE, FALSE, TRUE, TRUE, ChartData(l), v) :
            l \in InsLists, v \in {{}, {"chart.png"}}}

\* the plainer entries: the four without usable insights file, and the runs
\* whose insights file holds at most one object, with their image
SimpleChoices ==
    {Dirent(FALSE, FALSE, FALSE, FALSE, <<>>, {}),
     Dirent(TRUE, TRUE, TRUE, TRUE, ChartData(<<Ins("int", 1)>>), {"chart.png"}),
     Dirent(TRUE, FALSE, FALSE, FALSE, <<>>, {}),
     Dirent(TRUE, FALSE, TRUE, FALSE, <<>>, {"chart.png"}),
     Dirent(TRUE, FALSE, TRUE, TRUE, ChartData(<<>>), {"chart.png"})}
    \cup {Dirent(TRUE, FALSE, TRUE, TRUE, ChartData(<<Ins(c, 1)>>), {"chart.png"}) :
            c \in AvgChoices}

\* the decimal digits of n
RECURSIVE Digits(_)
Digits(n) == IF n < 10 THEN <<48 + n>> ELSE Digits(n \div 10) \o <<48 + (n % 10)>>

\* the j-th run of a runs directory: run_9, run_10, run_11, ..., so that the
\* order of the names as strings is not the order of their numbers
RunName(j) == RunPrefix \o Digits(8 + j)
RunIndex(nm) == CHOOSE j \in 1..(MaxRuns + 2) : RunName(j) = nm

OtherName == <<116, 109, 112, 95, 49>>     \* "tmp_1"
EarlyName == <<97, 98, 99, 95, 49>>        \* "abc_1"

\* a directory that is not a run, although it holds an insights file
OtherDirent ==
    Dirent(TRUE, FALSE, TRUE, TRUE, ChartData(<<Ins("float", 1)>>), {"chart.png"})

MissingRoot == [exists |-> FALSE, entries |-> <<>>]

\* the runs directory holding tmp_1 and the first n runs: the i-th run is the
\* entry d, and every other run_j is the entry g[j]
SmallRoot(n, i, d, g) ==
    [exists |-> TRUE,
     entries |-> [nm \in {RunName(j) : j \in 1..n} \cup {OtherName} |->
                    IF nm = OtherName THEN OtherDirent
                    ELSE IF RunIndex(nm) = i THEN d ELSE g[RunIndex(nm)]]]

\* the runs directory without any run
NoRunRoot ==
    [exists |-> TRUE, entries |-> [nm \in {OtherName, EarlyName} |-> OtherDirent]]

\* 13 + 12 records over two runs, scores descending within a run, with ties
\* across the runs; the image of the first run only
LongRoots ==
    {[exists |-> TRUE,
      entries |-> [nm \in {RunName(1), RunName(2)} |->
            Dirent(TRUE, FALSE, TRUE, TRUE,
               ChartData([i \in 1..(14 - RunIndex(nm)) |->
                  [has_avg_scores |-> TRUE,
                   avg_scores |-> JFloat(20 - i + RunIndex(nm)),
                   insight |-> i]]),
               IF RunIndex(nm) = 1 THEN {"chart.png"} ELSE {})]]}

SpecialRoots == {MissingRoot, NoRunRoot} \cup LongRoots

----------------------------------------------------------------------------
\* The programs

Init ==
    /\ prog \in {"sample_insights", "extract_all_datasets", "extract_interactive_data"}
    /\ pc = "start"
    /\ IF prog = "sample_insights"
       THEN insights \in Inputs /\ interval \in Strides
       ELSE insights = <<>> /\ interval = 0
    /\ ret = NotCalled
    /\ ret2 = NotCalled
    /\ next = 1
    /\ runs_root = MissingRoot
    /\ all_insights = NotCalled
    /\ document = NoDocument
    /\ copied = <<>>

\* a call sample_insights(insights, interval)
SampleCall ==
    /\ prog = "sample_insights"
    /\ pc = "start"
    /\ ret' = sample_insights(insights, interval)
    /\ pc' = "sampled"
    /\ UNCHANGED <<prog, insights, interval, ret2, next, runs_root,
                   all_insights, document, copied>>

\* a call sample_insights(sorted(insights, key=score), interval)
SampleSortedCall ==
    /\ prog = "sample_insights"
    /\ pc = "sampled"
    /\ ret2' = sample_insights(Sorted(insights), interval)
    /\ pc' = "done"
    /\ UNCHANGED <<prog, insights, interval, ret, next, runs_root,
                   all_insights, document, copied>>

\* the effect of one pipeline run on the state
Effect(root, o) ==
    /\ runs_root' = root
    /\ all_insights' = o.all_insights
    /\ insights' = o.insights
    /\ interval' = o.interval
    /\ ret' = o.ret
    /\ document' = o.document
    /\ copied' = o.copied

\* the call process_dataset(dataset_key, config) of the loop of main() over
\* DATASETS, on the runs directory found at the dataset's runs_path.  An
\* exception leaves main.
ProcessDatasetOn(root) ==
    LET o == process_dataset(DATASETS[next], root)
    IN /\ Effect(root, o)
       /\ pc' = IF o.status = "raise" THEN "raised" ELSE "returned"

ProcessDataset ==
    /\ prog = "extract_all_datasets"
    /\ pc = "start"
    /\ next <= Len(DATASETS)
    /\ \/ \E root \in SpecialRoots : ProcessDatasetOn(root)
       \/ \E n \in 1..MaxRuns : \E i \in 1..n : \E d \in DirentChoices :
             \E g \in [(1..n) \ {i} -> SimpleChoices] :
                ProcessDatasetOn(SmallRoot(n, i, d, g))
    /\ UNCHANGED <<prog, ret2, next>>

\* the loop goes on to the next dataset; the locals of the call are gone
NextDataset ==
    /\ prog = "extract_all_datasets"
    /\ pc = "returned"
    /\ pc' = "start"
    /\ next' = next + 1
    /\ runs_root' = MissingRoot
    /\ all_insights' = NotCalled
    /\ insights' = <<>>
    /\ interval' = 0
    /\ ret' = NotCalled
    /\ document' = NoDocument
    /\ copied' = <<>>
    /\ UNCHANGED <<prog, ret2>>

\* the loop is over: "All datasets processed!"
MainDone ==
    /\ prog = "extract_all_datasets"
    /\ pc = "start"
    /\ next > Len(DATASETS)
    /\ pc' = "done"
    /\ UNCHANGED <<prog, insights, interval, ret, ret2, next, runs_root,
                   all_insights, document, copied>>

\* main() of extract_interactive_data.py
InteractiveMainOn(root) ==
    LET o == interactive_main(root)
    IN /\ Effect(root, o)
       /\ pc' = IF o.status = "raise" THEN "raised" ELSE "done"

InteractiveMain ==
    /\ prog = "extract_interactive_data"
    /\ pc = "start"
    /\ \/ \E root \in SpecialRoots : InteractiveMainOn(root)
       \/ \E n \in 1..MaxRuns : \E i \in 1..n : \E d \in DirentChoices :
             \E g \in [(1..n) \ {i} -> SimpleChoices] :
                InteractiveMainOn(SmallRoot(n, i, d, g))
    /\ UNCHANGED <<prog, ret2, next>>

Next ==
    \/ SampleCall
    \/ SampleSortedCall
    \/ ProcessDataset
    \/ NextDataset
    \/ MainDone
    \/ InteractiveMain

Spec == Init /\ [][Next]_vars

----------------------------------------------------------------------------
\* Properties of sample_insights.  They are stated on every call of it: the
\* direct calls and the calls made by the two pipelines.

Called == ret.tag # "not called"
Returned == ret.tag = "return"

\* the positions of the records that a stable ascending sort puts first and last
FirstMin(L) ==
    CHOOSE i \in 1..Len(L) :
        /\ \A j \in 1..Len(L) : L[i].score <= L[j].score
        /\ \A j \in 1..(i - 1) : L[j].score > L[i].score
LastMax(L) ==
    CHOOSE i \in 1..Len(L) :
        /\ \A j \in 1..Len(L) : L[i].score >= L[j].score
        /\ \A j \in (i + 1)..Len(L) : L[j].score < L[i].score

\* the zero-based position of L[i] in the stable ascending sort of L
StableRank(L, i) ==
    Cardinality({j \in 1..Len(L) :
        \/ L[j].score < L[i].score
        \/ L[j].score = L[i].score /\ j < i})

\* C1: for a non-empty list and a stride >= 1, the first sampled record is the
\* record of minimum score (the first of the stable sort) and the last sampled
\* record is the record of maximum score (the last of the stable sort).
C1_FirstMinLastMax ==
    (Called /\ interval >= 1 /\ Len(insights) >= 1) =>
        /\ Returned
        /\ Len(ret.value.sampled) >= 1
        /\ ret.value.sampled[1] = insights[FirstMin(insights)]
        /\ ret.value.sampled[Len(ret.value.sampled)] = insights[LastMax(insights)]
        /\ \A i \in 1..Len(insights) :
              /\ ret.value.sampled[1].score <= insights[i].score
              /\ ret.value.sampled[Len(ret.value.sampled)].score >= insights[i].score

C1_Witness ==
    /\ Returned /\ interval >= 1
    /\ Len(insights) >= 3
    /\ Len(ret.value.sampled) >= 3
    /\ FirstMin(insights) > 1
    /\ LastMax(insights) < Len(insights)

\* C2: for every list and every stride >= 1, the returned indices are strictly
\* increasing and each lies in 0..n-1.
C2_IndicesIncreasing ==
    (Called /\ interval >= 1) =>
        /\ Returned
        /\ \A k \in 1..Len(ret.value.indices) :
              /\ ret.value.indices[k] >= 0
              /\ ret.value.indices[k] <= Len(insights) - 1
        /\ \A k \in 1..(Len(ret.value.indices) - 1) :
              ret.value.indices[k] < ret.value.indices[k + 1]

\* the stride divides n-1 and is smaller than it
C2_Witness ==
    /\ Returned /\ interval >= 1
    /\ Len(insights) >= 3
    /\ interval < Len(insights) - 1
    /\ (Len(insights) - 1) % interval = 0
    /\ Len(ret.value.indices) >= 3

\* C3: whatever the stride, the empty list gives ([], []) and a one-element
\* list [x] gives ([x], [0]).
C3_EmptyAndSingleton ==
    /\ (Called /\ Len(insights) = 0) =>
          ret = Return([sampled |-> <<>>, indices |-> <<>>])
    /\ (Called /\ Len(insights) = 1) =>
          ret = Return([sampled |-> <<insights[1]>>, indices |-> <<0>>])

\* a one-element list sampled at the stride 0, for which range() would raise
C3_Witness ==
    /\ Called
    /\ interval = 0
    /\ Len(insights) = 1
    /\ ret = Return([sampled |-> insights, indices |-> <<0>>])

\* C4: for n >= 2 and a stride s >= 1 the indices are 0, the multiples of s
\* that are < n-1, and n-1, and the k-th sampled record is the record at
\* position indices[k] of the stable sort.  So s >= n-1 gives [0, n-1], and 25
\* records at stride 10 give [0, 10, 20, 24].
C4_ExactIndices ==
    (Called /\ interval >= 1 /\ Len(insights) >= 2) =>
        LET n == Len(insights)
            idx == ret.value.indices
            smp == ret.value.sampled
            mult == {m \in 1..(n - 2) : m % interval = 0}
        IN /\ Returned
           /\ Len(idx) = Cardinality(mult) + 2
           /\ Len(smp) = Len(idx)
           /\ idx[1] = 0
           /\ idx[Len(idx)] = n - 1
           /\ {idx[k] : k \in 2..(Len(idx) - 1)} = mult
           /\ \A k \in 1..(Len(idx) - 1) : idx[k] < idx[k + 1]
           /\ \A k \in 1..Len(idx) :
                 \E i \in 1..n : StableRank(insights, i) = idx[k] /\ smp[k] = insights[i]
           /\ (interval >= n - 1) => idx = <<0, n - 1>>
           /\ (n = 25 /\ interval = 10) => idx = <<0, 10, 20, 24>>

\* 25 records sampled at the stride 10, given out of order
C4_Witness ==
    /\ Returned
    /\ Len(insights) = 25 /\ interval = 10
    /\ ret.value.indices = <<0, 10, 20, 24>>
    /\ insights[1].score > insights[25].score

\* C5: sampling the score-sorted list gives the same records and the same
\* indices as sampling the list itself, for every list and stride >= 1.
C5_SampleOfSorted ==
    (prog = "sample_insights" /\ pc = "done" /\ interval >= 1) => ret2 = ret

\* a list with a tie, not in score order, sampled both ways
C5_Witness ==
    /\ prog = "sample_insights" /\ pc = "done" /\ interval >= 1
    /\ Len(insights) >= 3
    /\ \E i, j \in 1..Len(insights) : i < j /\ insights[i].score = insights[j].score
    /\ \E i, j \in 1..Len(insights) : i < j /\ insights[i].score > insights[j].score
    /\ ret2.tag = "return"
    /\ Len(ret2.value.sampled) >= 3

----------------------------------------------------------------------------
\* Properties of load_all_insights

Loaded == all_insights.tag = "return"

\* the run directory passes the three skips
Qualifies(root, nm) ==
    /\ Len(nm) >= 4 /\ <<nm[1], nm[2], nm[3], nm[4]>> = <<114, 117, 110, 95>>
    /\ root.entries[nm].isdir
    /\ ~root.entries[nm].error
    /\ root.entries[nm].has_insights

\* the objects of the insights file of a run, in file order
ObjectsOf(root, nm) ==
    LET d == root.entries[nm].data
    IN IF Len(d) = 0 THEN <<>> ELSE d[1].ins_list

HasScore(ins) == ins.has_avg_scores /\ ins.avg_scores.t # "null"

\* reading the insights file of the run raises inside the try block
ReadRaises(root, nm) ==
    /\ Qualifies(root, nm)
    /\ \/ ~root.entries[nm].parses
       \/ \E k \in 1..Len(ObjectsOf(root, nm)) :
             HasScore(ObjectsOf(root, nm)[k]) /\ ObjectsOf(root, nm)[k].avg_scores.t = "str"

\* the records of the returned list that come from the run
RecordsFrom(nm) == SelectSeq(all_insights.value, LAMBDA r : r.run_name = nm)

\* the <<insight, score>> of the objects of the run that have a score
ScoredObjects(root, nm) ==
    LET objs == SelectSeq(ObjectsOf(root, nm), HasScore)
    IN [k \in 1..Len(objs) |->
          <<objs[k].insight,
            IF objs[k].avg_scores.t = "int" THEN 8 * objs[k].avg_scores.v
            ELSE objs[k].avg_scores.v>>]

\* C6: when reading a run's insights file raises (the file does not parse, or
\* an entry makes processing fail partway), the returned list has no record of
\* that run, and every later run still contributes its records.
C6_FailedRunDropped ==
    Loaded =>
        \A nm \in DOMAIN runs_root.entries :
            ReadRaises(runs_root, nm) =>
                /\ RecordsFrom(nm) = <<>>
                /\ \A later \in DOMAIN runs_root.entries :
                      (NameLess(nm, later) /\ Qualifies(runs_root, later)
                         /\ ~ReadRaises(runs_root, later)) =>
                      Len(RecordsFrom(later)) = Len(ScoredObjects(runs_root, later))

\* C9: no object whose avg_scores is null or absent gives a record, and a
\* qualifying run that is read without error gives one record per object with
\* a score, in file order.
C9_OnlyScored ==
    Loaded =>
        /\ \A k \in 1..Len(all_insights.value) :
              LET r == all_insights.value[k]
              IN /\ r.run_name \in DOMAIN runs_root.entries
                 /\ Qualifies(runs_root, r.run_name)
                 /\ \E j \in 1..Len(ObjectsOf(runs_root, r.run_name)) :
                       LET o == ObjectsOf(runs_root, r.run_name)[j]
                       IN o.insight = r.insight /\ HasScore(o)
        /\ \A nm \in DOMAIN runs_root.entries :
              (Qualifies(runs_root, nm) /\ ~ReadRaises(runs_root, nm)) =>
                 [k \in 1..Len(RecordsFrom(nm)) |->
                     <<RecordsFrom(nm)[k].insight, RecordsFrom(nm)[k].score>>]
                 = ScoredObjects(runs_root, nm)

\* a run read without error that holds an object without score before an
\* object with one
C9_Witness ==
    /\ Loaded
    /\ \E nm \in DOMAIN runs_root.entries :
          /\ Qualifies(runs_root, nm) /\ ~ReadRaises(runs_root, nm)
          /\ Len(ObjectsOf(runs_root, nm)) >= 2
          /\ ~HasScore(ObjectsOf(runs_root, nm)[1])
          /\ HasScore(ObjectsOf(runs_root, nm)[2])
          /\ Len(RecordsFrom(nm)) = 1

----------------------------------------------------------------------------
\* Properties of the pipelines

\* a pipeline run has finished normally
Finished ==
    \/ prog = "extract_all_datasets" /\ pc = "returned"
    \/ prog = "extract_interactive_data" /\ pc = "done"

ZeroRecords == Finished /\ Loaded /\ Len(all_insights.value) = 0

\* C7: with zero records, each of the two pipelines writes no document and
\* copies no image.
C7_NoOutputOnZero ==
    ZeroRecords => (document = NoDocument /\ copied = <<>>)

\* C7 as amended: with zero records no image is copied; process_dataset writes
\* no document, and main of extract_interactive_data.py writes a document with
\* an empty curve, zero statistics and no samples.
C7_Amended ==
    ZeroRecords =>
        /\ copied = <<>>
        /\ prog = "extract_all_datasets" => document = NoDocument
        /\ prog = "extract_interactive_data" =>
              /\ document.written
              /\ document.data.samples = <<>>
              /\ document.data.curve.scores = <<>>
              /\ document.data.curve.total_count = 0
              /\ document.data.curve.min_score = 0
              /\ document.data.curve.max_score = 0

\* process_dataset returned on a runs directory with a qualifying run that
\* gave no record
C7_Witness ==
    /\ ZeroRecords
    /\ prog = "extract_all_datasets"
    /\ document = NoDocument
    /\ \E nm \in DOMAIN runs_root.entries :
          Qualifies(runs_root, nm) /\ Len(ObjectsOf(runs_root, nm)) >= 1

\* C8: no failure while processing a dataset ends the batch: when main has
\* stopped, process_dataset has completed for every dataset of DATASETS.
C8_BatchCompletes ==
    (prog = "extract_all_datasets" /\ pc \in {"done", "raised"}) =>
        next > Len(DATASETS)

\* C10: in the written document curve.scores is ascending, there is one sample
\* per sampled record, curve.scores[sample.index] is the score of the sampled
\* record, and the first and last samples have the indices 0 and total_count-1
\* and the scores min_score and max_score.
C10_SamplesMatchCurve ==
    (Finished /\ document.written) =>
        LET curve == document.data.curve
            samples == document.data.samples
            smp == ret.value.sampled
        IN /\ Returned
           /\ curve.total_count = Len(all_insights.value)
           /\ Len(curve.scores) = curve.total_count
           /\ \A i \in 1..(Len(curve.scores) - 1) : curve.scores[i] <= curve.scores[i + 1]
           /\ Len(samples) = Len(smp)
           /\ \A k \in 1..Len(samples) :
                 /\ samples[k].index \in 0..(curve.total_count - 1)
                 /\ curve.scores[samples[k].index + 1] = smp[k].score
                 /\ samples[k].score = Round2(curve.scores[samples[k].index + 1])
                 /\ samples[k].insight = smp[k].insight
                 /\ samples[k].run_name = smp[k].run_name
           /\ Len(samples) >= 1 =>
                 /\ samples[1].index = 0
                 /\ smp[1].score = curve.min_score
                 /\ samples[Len(samples)].index = curve.total_count - 1
                 /\ smp[Len(smp)].score = curve.max_score

\* a document with an interior sample, some images copied and some missing
C10_Witness ==
    /\ Finished /\ document.written
    /\ Len(document.data.samples) >= 3
    /\ Len(copied) >= 1
    /\ Len(copied) < Len(document.data.samples)
    /\ \E i \in 1..(Len(all_insights.value) - 1) :
          all_insights.value[i].score > all_insights.value[i + 1].score

====
